---- MODULE Spec2Model ----
(***************************************************************************)
(* A model of proper-lockfile (src/index.js): the lock artifact on a       *)
(* shared filesystem (directory <file>.lock, its mtime, the .uid file),    *)
(* the per-process registry `locks`, the acquisition protocol of           *)
(* acquireLock/lock, the renewal ticks of updateLock and the teardown of   *)
(* unlock/removeLock.  Every filesystem call is one step, so that calls of *)
(* different parties interleave as they can on a real filesystem.          *)
(*                                                                         *)
(* One lock file is modelled.  Times are milliseconds.                     *)
(***************************************************************************)
EXTENDS Integers, Sequences, FiniteSets, TLC

\* ---------------------------------------------------------------- constants
MinStale == 2000          \* Math.max(options.stale || 0, 2000)
MinUpdate == 1000         \* Math.max(Math.min(...), 1000)
ErrorDelay == 1000        \* lock.updateDelay = 1000 after a failed tick
DefaultStale == 10000     \* stale: 10000 of lock()'s defaults
DefaultUpdate == 5000     \* update: 5000 of lock()'s defaults
RetryMinTimeout == 1000   \* the retry module's first delay (minTimeout)
RetryFactor == 2          \* each later delay is this many times the one before

\* ------------------------------------------------------------------- bounds
MaxTicks == 3             \* the clock advances MaxTicks times at most
MaxRetries == 2           \* options.retries is drawn from 0..MaxRetries
MaxFaults == 1            \* filesystem calls that fail for an outside reason
MaxReleases == 2          \* calls of one release function
MaxUnlocks == 2           \* calls of unlock(file) in one process

Max(a, b) == IF a >= b THEN a ELSE b
Min(a, b) == IF a <= b THEN a ELSE b

\* Math.round(n / 2) for an integer n >= 0 (halves round up)
RoundHalf(n) == (n + 1) \div 2

\* options.stale = Math.max(options.stale || 0, 2000)
EffStale(s) == Max(s, MinStale)

\* options.update = Math.max(Math.min(options.update || 0, Math.round(options.stale / 2)), 1000)
EffUpdate(u, st) == Max(Min(u, RoundHalf(st)), MinUpdate)

\* An option the caller may leave out is <<>> when left out and <<n>> when
\* given.  extend(defaults, options), lines 174-180: a given value replaces
\* the default
extend(def, given) == IF given = <<>> THEN def ELSE given[1]

\* the options object lock() works with, lines 174-185, from the caller's
\* argument arg
lock_options(arg) ==
    LET st == EffStale(extend(DefaultStale, arg.stale))
    IN [stale |-> st, update |-> EffUpdate(extend(DefaultUpdate, arg.update), st),
        retries |-> arg.retries, resolve |-> extend(TRUE, arg.resolve)]

\* the arguments of a lock() call: the options stale, update, retries and
\* resolve, and whether a compromised handler is given.  MinArg has the
\* smallest stale and update the code allows, and a handler.
MinArg == [stale |-> <<MinStale>>, update |-> <<MinUpdate>>, retries |-> 0,
           resolve |-> <<>>, compromised |-> TRUE]
Stale == lock_options(MinArg).stale
Update == lock_options(MinArg).update

\* the clock moves in steps of the smallest delay the code ever schedules
TimeStep == MinUpdate
MaxTime == MaxTicks * TimeStep

\* ------------------------------------------------------------------ parties
Procs == {"A", "B"}
Calls == {"a1", "a2", "b1"}          \* lock() calls; a1 and a2 in one process
ProcOf(c) == IF c = "b1" THEN "B" ELSE "A"

None == "none"
Dead == "dead"                        \* the token of a holder that crashed earlier

VARIABLES
    now,      \* Date.now()
    disk,     \* the file to lock and the lock artifact: [file, dir, mtime, uid]
    locks,    \* var locks = {} of each process: the call whose handle is registered
    call,     \* each lock() call: where it stands in acquireLock
    hnd,      \* the lock object each successful call created
    chain,    \* each renewal chain: its timer, its tick in flight, its teardown
    unl,      \* each process's calls of unlock(file)
    alive,    \* whether the process still runs
    faults    \* filesystem faults still to be injected

vars == <<now, disk, locks, call, hnd, chain, unl, alive, faults>>

\* --------------------------------------------------------------- filesystem
\* Each primitive returns [err, disk, val]; err = None on success.  file is
\* whether the file to lock exists (nothing in the model creates or removes
\* it); dir, mtime and uid are the lock artifact.
NoDisk == [file |-> TRUE, dir |-> FALSE, mtime |-> 0, uid |-> None]
NoFile == [NoDisk EXCEPT !.file = FALSE]
Ret(e, d, v) == [err |-> e, disk |-> d, val |-> v, inj |-> FALSE]

\* fs.mkdir(getLockFile(file)): atomic create, EEXIST when the entry exists
fsMkdir(d, t) ==
    IF d.dir THEN Ret("EEXIST", d, 0)
    ELSE Ret(None, [d EXCEPT !.dir = TRUE, !.mtime = t, !.uid = None], 0)

\* fs.writeFile(getUidFile(file), uid): creating the entry touches the directory
fsWriteFile(d, t, tok) ==
    IF ~d.dir THEN Ret("ENOENT", d, 0)
    ELSE Ret(None, [d EXCEPT !.uid = tok,
                             !.mtime = IF d.uid = None THEN t ELSE d.mtime], 0)

\* fs.stat(getLockFile(file)): val is stat.mtime.getTime()
fsStat(d) == IF ~d.dir THEN Ret("ENOENT", d, 0) ELSE Ret(None, d, d.mtime)

\* fs.unlink(getUidFile(file)): removing the entry touches the directory
fsUnlink(d, t) ==
    IF d.uid = None THEN Ret("ENOENT", d, 0)
    ELSE Ret(None, [d EXCEPT !.uid = None, !.mtime = t], 0)

\* fs.rmdir(getLockFile(file)): fails on a directory that still holds .uid
fsRmdir(d) ==
    IF ~d.dir THEN Ret("ENOENT", d, 0)
    ELSE IF d.uid # None THEN Ret("ENOTEMPTY", d, 0)
    ELSE Ret(None, [d EXCEPT !.dir = FALSE, !.mtime = 0, !.uid = None], 0)

\* fs.realpath(file), line 26: fails when the file named does not exist
fsRealpath(d) == IF d.file THEN Ret(None, d, 0) ELSE Ret("ENOENT", d, 0)

\* fs.readFile(getUidFile(file)): val is the token read
fsReadFile(d) == IF d.uid = None THEN Ret("ENOENT", d, 0) ELSE Ret(None, d, d.uid)

\* mutant: the call succeeds and leaves the mtime as it was
fsUtimes_untouched(d, mt) ==
    IF ~d.dir THEN Ret("ENOENT", d, 0) ELSE Ret(None, d, 0)

\* fs.utimes(getLockFile(file), mtime, mtime)
fsUtimes(d, mt) ==
    IF ~d.dir THEN Ret("ENOENT", d, 0) ELSE Ret(None, [d EXCEPT !.mtime = mt], 0)

\* what a call can return: what the filesystem holds decides, or an outside
\* failure (EIO) that leaves the artifact as it is
Outcomes(r) ==
    {r} \cup (IF faults > 0
              THEN {[err |-> "EIO", disk |-> disk, val |-> 0, inj |-> TRUE]}
              ELSE {})

Fs(r) ==
    /\ disk' = r.disk
    /\ faults' = IF r.inj THEN faults - 1 ELSE faults

\* ------------------------------------------------------------------ records
\* an error object: its code and, for an error of the filesystem, the system
\* call that failed; the two make up its message
Err(code, syscall) == [code |-> code, syscall |-> syscall]

\* no error
NoErr == Err(None, None)

\* errcode('Lock file is already being hold', 'ELOCKED'), lines 32, 56, 71
ELOCKED == Err("ELOCKED", None)

NoOptions == [stale |-> 0, update |-> 0, retries |-> 0, resolve |-> TRUE]

\* a lock() call: pc is where it stands, options the options object, stale
\* the options.stale of the acquireLock call under way, left the delays the
\* retry operation has left, due the time its timer is set for, errs the
\* errors of the failed attempts, res what the caller's callback got
IdleCall == [pc |-> "idle", arg |-> MinArg, options |-> NoOptions,
             stale |-> 0, left |-> 0, due |-> 0, why |-> None,
             perr |-> NoErr, errs |-> <<>>, res |-> None]

\* a lock object: handler is whether lock.compromised is the caller's handler
\* (else the default one, which throws); comp counts the calls of the caller's
\* handler; rels has one entry for each call of the release function: "unlink"
\* or "rmdir" while its removeLock is under way, then what its callback got
NoHnd == [live |-> FALSE, released |-> FALSE, lastUpdate |-> 0,
          updateError |-> None, updateDelay |-> 0, updateTimeout |-> None,
          handler |-> TRUE, comp |-> 0, compErr |-> None, rels |-> <<>>]

\* a renewal chain: stray holds the mtime arguments of the utimes calls that
\* are still under way after the callback of their tick has run
NoChain == [st |-> "off", target |-> None, due |-> 0, mt |-> 0,
            rd |-> "idle", rdval |-> None, ut |-> "idle", cb |-> TRUE,
            stray |-> {},
            rmpc |-> "off", rmFor |-> None, rmErr |-> None]

\* the calls of unlock(file) of a process, one record each: pc is "realpath",
\* "unlink" or "rmdir" while the call is under way and "done" after its
\* callback, rel the lock object it released, res what its callback got
NoUnl == <<>>

\* ------------------------------------------------------------- retry policy
\* operation.mainError() of the retry module: the error whose message was
\* seen most often, the later one on a tie (count >= mainErrorCount)
Count(es, e, n) == Cardinality({i \in 1..n : es[i] = e})

MainErrorAt(es, n) ==
    LET best == CHOOSE i \in 1..n :
            /\ \A j \in 1..n : Count(es, es[j], j) <= Count(es, es[i], i)
            /\ \A j \in (i+1)..n : Count(es, es[j], j) < Count(es, es[i], i)
    IN es[best]

\* mutant: the error of the last attempt
mainError_last(es) == IF es = <<>> THEN NoErr ELSE es[Len(es)]

mainError(es) == IF es = <<>> THEN NoErr ELSE MainErrorAt(es, Len(es))

\* the delay before attempt k + 1 of a retry operation: the k-th of the
\* timeouts minTimeout * factor^(k-1) the retry module computes
RECURSIVE RetryDelay(_)
RetryDelay(k) == IF k <= 1 THEN RetryMinTimeout ELSE RetryFactor * RetryDelay(k - 1)

\* acquireLock's callback with an error, lines 202-208: operation.retry(err)
\* sets the timer of another attempt while the policy has one left, else the
\* caller gets operation.mainError()
lock_callback_err(c, rec, e) ==
    LET es == Append(rec.errs, e) IN
    IF rec.left > 0
    THEN [rec EXCEPT !.pc = "wait", !.left = rec.left - 1, !.errs = es,
                     !.due = now + RetryDelay(Len(es)),
                     !.stale = 0, !.why = None, !.perr = NoErr]
    ELSE [rec EXCEPT !.pc = "done", !.errs = es, !.res = mainError(es).code,
                     !.stale = 0, !.why = None, !.perr = NoErr]

\* mutant: no look at the registry before the mkdir
acquireLock_enter_unchecked(c, rec, st) ==
    [rec EXCEPT !.pc = "mkdir", !.stale = st, !.why = None, !.perr = NoErr]

\* acquireLock(file, options) up to the mkdir call, lines 29-36
acquireLock_enter(c, rec, st) ==
    IF locks[ProcOf(c)] # None
    THEN lock_callback_err(c, rec, ELOCKED)
    ELSE [rec EXCEPT !.pc = "mkdir", !.stale = st, !.why = None, !.perr = NoErr]

\* updateLock(file, options) called for chain k in process p, lines 105-109 and
\* 157, on the registry lk and the lock objects hn: the timer is set on
\* locks[file], whichever lock object that is; with no entry, lock.updateDelay
\* throws a TypeError
updateLock(k, p, lk, hn, ch) ==
    LET R == lk[p] IN
    IF R = None
    THEN [crash |-> TRUE, hnd |-> hn, chain |-> [ch EXCEPT ![k].st = "off"]]
    ELSE LET delay == IF hn[R].updateDelay # 0 THEN hn[R].updateDelay
                      ELSE call[k].options.update
         IN [crash |-> FALSE,
             hnd |-> [hn EXCEPT ![R].updateDelay = delay, ![R].updateTimeout = k],
             chain |-> [ch EXCEPT ![k].st = "timer", ![k].target = R,
                                  ![k].due = now + delay]]

\* the fresh lock object of lines 211-216; without a handler from the caller
\* lock.compromised is the function of line 186
NewHnd(given) == [NoHnd EXCEPT !.live = TRUE, !.lastUpdate = now, !.handler = given]

\* a failed attempt changes nothing but the call
Failed(c, rec) ==
    /\ call' = [call EXCEPT ![c] = rec]
    /\ UNCHANGED <<locks, hnd, chain, alive>>

\* acquireLock's callback without an error, lines 210-230: register the lock
\* object, start its renewal, hand the release function to the caller
lock_callback_ok(c) ==
    LET p == ProcOf(c)
        lk == [locks EXCEPT ![p] = c]
        hn == [hnd EXCEPT ![c] = NewHnd(call[c].arg.compromised)]
        up == updateLock(c, p, lk, hn, [chain EXCEPT ![c] = NoChain])
    IN /\ locks' = lk
       /\ hnd' = up.hnd
       /\ chain' = up.chain
       /\ call' = [call EXCEPT ![c] = [@ EXCEPT !.pc = "done", !.res = "ok",
                               !.stale = 0, !.why = None, !.perr = NoErr]]
       /\ UNCHANGED alive

\* mutant: the comparison the wrong way round
NotStale_inverted(mtime, t, st) == mtime <= t - st

\* mutant: an artifact exactly as old as the threshold counts as stale
NotStale_strict(mtime, t, st) == mtime > t - st

\* stat.mtime.getTime() >= Date.now() - options.stale, line 70
NotStale(mtime, t, st) == mtime >= t - st

\* ------------------------------------------------------ acquisition actions
\* the callback of canonicalPath in lock(), lines 189-199, on the call record
\* rec: retry.operation(options.retries) allows options.retries further
\* attempts, and the first attempt starts
lock_resolved(c, rec) ==
    acquireLock_enter(c, [rec EXCEPT !.left = rec.options.retries], rec.options.stale)

\* lock(file, options, compromised, callback), lines 162-189, with the
\* caller's arguments call[c].arg: with options.resolve the call waits for
\* fs.realpath, without it canonicalPath calls back at once (line 23)
lock(c) ==
    /\ call[c].pc = "idle" /\ alive[ProcOf(c)]
    /\ LET rec == [call[c] EXCEPT !.options = lock_options(call[c].arg)] IN
       Failed(c, IF rec.options.resolve
                 THEN [rec EXCEPT !.pc = "realpath"]
                 ELSE lock_resolved(c, rec))
    /\ UNCHANGED <<now, disk, unl, faults>>

\* fs.realpath returns in lock(), lines 189-199: its error goes to the caller
\* at once, before any attempt
lock_realpath(c) ==
    /\ call[c].pc = "realpath" /\ alive[ProcOf(c)]
    /\ \E r \in Outcomes(fsRealpath(disk)) :
          /\ Fs(r)
          /\ Failed(c, IF r.err # None
                       THEN [call[c] EXCEPT !.pc = "done", !.res = r.err]
                       ELSE lock_resolved(c, call[c]))
    /\ UNCHANGED <<now, unl>>

\* the retry module's timer fires, no earlier than it was set for: the next
\* attempt, with the caller's options
lock_retry(c) ==
    /\ call[c].pc = "wait" /\ alive[ProcOf(c)]
    /\ now >= call[c].due
    /\ Failed(c, acquireLock_enter(c, [call[c] EXCEPT !.due = 0], call[c].options.stale))
    /\ UNCHANGED <<now, disk, unl, faults>>

\* fs.mkdir returns, lines 36-59
acquireLock_mkdir(c) ==
    /\ call[c].pc = "mkdir" /\ alive[ProcOf(c)]
    /\ \E r \in Outcomes(fsMkdir(disk, now)) :
          /\ Fs(r)
          /\ Failed(c, IF r.err = None THEN [call[c] EXCEPT !.pc = "write"]
                       ELSE IF call[c].stale <= 0
                            THEN lock_callback_err(c, call[c], ELOCKED)
                            ELSE [call[c] EXCEPT !.pc = "stat"])
    /\ UNCHANGED <<now, unl>>

\* fs.writeFile returns, lines 43-51
acquireLock_write(c) ==
    /\ call[c].pc = "write" /\ alive[ProcOf(c)]
    /\ \E r \in Outcomes(fsWriteFile(disk, now, c)) :
          /\ Fs(r)
          /\ IF r.err = None
             THEN lock_callback_ok(c)
             ELSE Failed(c, [call[c] EXCEPT !.pc = "unlink", !.why = "write",
                                            !.perr = Err(r.err, "open")])
    /\ UNCHANGED <<now, unl>>

\* mutant: the retry after a vanished entry keeps the stale check on
acquireLock_stat_rechecks(c) ==
    /\ call[c].pc = "stat" /\ alive[ProcOf(c)]
    /\ \E r \in Outcomes(fsStat(disk)) :
          /\ Fs(r)
          /\ Failed(c, IF r.err = "ENOENT" THEN acquireLock_enter(c, call[c], call[c].stale)
                       ELSE IF r.err # None
                            THEN lock_callback_err(c, call[c], Err(r.err, "stat"))
                       ELSE IF NotStale(r.val, now, call[c].stale)
                            THEN lock_callback_err(c, call[c], ELOCKED)
                            ELSE [call[c] EXCEPT !.pc = "unlink", !.why = "stale"])
    /\ UNCHANGED <<now, unl>>

\* fs.stat returns, lines 59-76
acquireLock_stat(c) ==
    /\ call[c].pc = "stat" /\ alive[ProcOf(c)]
    /\ \E r \in Outcomes(fsStat(disk)) :
          /\ Fs(r)
          /\ Failed(c, IF r.err = "ENOENT" THEN acquireLock_enter(c, call[c], 0)
                       ELSE IF r.err # None
                            THEN lock_callback_err(c, call[c], Err(r.err, "stat"))
                       ELSE IF NotStale(r.val, now, call[c].stale)
                            THEN lock_callback_err(c, call[c], ELOCKED)
                            ELSE [call[c] EXCEPT !.pc = "unlink", !.why = "stale"])
    /\ UNCHANGED <<now, unl>>

\* removeLock's callback inside acquireLock: after a failed write the write
\* error is reported whatever the teardown did (lines 45-47); after a stale
\* lock the teardown's error is reported, or the create is tried again with
\* the stale check off (lines 76-82)
acquireLock_removed(c, err) ==
    IF call[c].why = "write" THEN lock_callback_err(c, call[c], call[c].perr)
    ELSE IF err # NoErr THEN lock_callback_err(c, call[c], err)
    ELSE acquireLock_enter(c, call[c], 0)

\* mutant: a uid file that is not there counts as a failure of the teardown
acquireLock_unlink_strict(c) ==
    /\ call[c].pc = "unlink" /\ alive[ProcOf(c)]
    /\ \E r \in Outcomes(fsUnlink(disk, now)) :
          /\ Fs(r)
          /\ Failed(c, IF r.err # None
                       THEN acquireLock_removed(c, Err(r.err, "unlink"))
                       ELSE [call[c] EXCEPT !.pc = "rmdir"])
    /\ UNCHANGED <<now, unl>>

\* removeLock: fs.unlink returns, lines 89-95
acquireLock_unlink(c) ==
    /\ call[c].pc = "unlink" /\ alive[ProcOf(c)]
    /\ \E r \in Outcomes(fsUnlink(disk, now)) :
          /\ Fs(r)
          /\ Failed(c, IF r.err \notin {None, "ENOENT"}
                       THEN acquireLock_removed(c, Err(r.err, "unlink"))
                       ELSE [call[c] EXCEPT !.pc = "rmdir"])
    /\ UNCHANGED <<now, unl>>

\* removeLock: fs.rmdir returns, lines 95-101
acquireLock_rmdir(c) ==
    /\ call[c].pc = "rmdir" /\ alive[ProcOf(c)]
    /\ \E r \in Outcomes(fsRmdir(disk)) :
          /\ Fs(r)
          /\ Failed(c, acquireLock_removed(c, IF r.err \in {None, "ENOENT"} THEN NoErr
                                              ELSE Err(r.err, "rmdir")))
    /\ UNCHANGED <<now, unl>>

\* ------------------------------------------------------- unlock, teardown
\* mutant: the pending timer is not cleared
unlock_sync_keeps_timer(p, lk, hn, ch) ==
    [locks |-> [lk EXCEPT ![p] = None],
     hnd |-> [hn EXCEPT ![lk[p]].released = TRUE],
     chain |-> ch]

\* unlock(file)'s synchronous part, lines 257-265, in process p on the
\* registry lk, lock objects hn and chains ch: whatever lock object the
\* registry holds has its pending timer cleared, is marked released and
\* leaves the registry
unlock_sync(p, lk, hn, ch) ==
    LET R == lk[p]
        t == hn[R].updateTimeout
    IN [locks |-> [lk EXCEPT ![p] = None],
        hnd |-> [hn EXCEPT ![R].released = TRUE],
        chain |-> IF t # None /\ ch[t].st = "timer"
                  THEN [ch EXCEPT ![t].st = "off"] ELSE ch]

\* lock.compromised(err) is invoked for lock object L: the caller's handler
\* runs, or the default one of line 186 throws and the uncaught exception
\* ends the process
compromised(hn, L, e) ==
    IF hn[L].handler
    THEN [hnd |-> [hn EXCEPT ![L].comp = @ + 1, ![L].compErr = e], crash |-> FALSE]
    ELSE [hnd |-> hn, crash |-> TRUE]

Put(lk, hn, ch, crash, p) ==
    /\ locks' = lk
    /\ hnd' = hn
    /\ chain' = ch
    /\ alive' = IF crash THEN [alive EXCEPT ![p] = FALSE] ELSE alive

\* the release function returned by lock(), lines 221-230, and the unlock(file)
\* it calls with resolve: false (lines 250-267, in the same turn); the call
\* gets an entry in rels
release(c) ==
    /\ hnd[c].live /\ alive[ProcOf(c)]
    /\ Len(hnd[c].rels) < MaxReleases
    /\ IF hnd[c].released
       THEN /\ hnd' = [hnd EXCEPT ![c].rels = Append(@, "ERELEASED")]
            /\ UNCHANGED <<locks, chain>>
       ELSE IF locks[ProcOf(c)] = None
       THEN /\ hnd' = [hnd EXCEPT ![c].rels = Append(@, "ENOTACQUIRED")]
            /\ UNCHANGED <<locks, chain>>
       ELSE LET u == unlock_sync(ProcOf(c), locks, hnd, chain) IN
            /\ hnd' = [u.hnd EXCEPT ![c].rels = Append(@, "unlink")]
            /\ locks' = u.locks
            /\ chain' = u.chain
    /\ UNCHANGED <<now, disk, call, unl, alive, faults>>

\* removeLock of a call of the release function: fs.unlink returns, lines 89-95
release_unlink(c) ==
    /\ alive[ProcOf(c)]
    /\ \E i \in 1..Len(hnd[c].rels) :
          /\ hnd[c].rels[i] = "unlink"
          /\ \E r \in Outcomes(fsUnlink(disk, now)) :
                /\ Fs(r)
                /\ hnd' = [hnd EXCEPT ![c].rels[i] =
                              IF r.err \notin {None, "ENOENT"} THEN r.err ELSE "rmdir"]
    /\ UNCHANGED <<now, locks, call, chain, unl, alive>>

\* removeLock of a call of the release function: fs.rmdir returns, lines 95-101
release_rmdir(c) ==
    /\ alive[ProcOf(c)]
    /\ \E i \in 1..Len(hnd[c].rels) :
          /\ hnd[c].rels[i] = "rmdir"
          /\ \E r \in Outcomes(fsRmdir(disk)) :
                /\ Fs(r)
                /\ hnd' = [hnd EXCEPT ![c].rels[i] =
                              IF r.err \in {None, "ENOENT"} THEN "ok" ELSE r.err]
    /\ UNCHANGED <<now, locks, call, chain, unl, alive>>

\* a call of unlock(file) that has just been made
NewUnl == [pc |-> "realpath", rel |-> None, res |-> None]

\* the callback of canonicalPath in unlock(file), lines 250-267, for call i of
\* the calls us of process p: with no registered lock object the caller gets
\* ENOTACQUIRED; else the registered one is released and removeLock starts
unlock_resolved(p, us, i) ==
    IF locks[p] = None
    THEN /\ unl' = [unl EXCEPT ![p] = [us EXCEPT ![i].pc = "done",
                                                 ![i].res = "ENOTACQUIRED"]]
         /\ UNCHANGED <<locks, hnd, chain, alive>>
    ELSE /\ unl' = [unl EXCEPT ![p] = [us EXCEPT ![i].pc = "unlink",
                                                 ![i].rel = locks[p]]]
         /\ LET u == unlock_sync(p, locks, hnd, chain) IN
            Put(u.locks, u.hnd, u.chain, FALSE, p)

\* unlock(file, options) called by the application, lines 236-250: with
\* options.resolve (the default) the call waits for fs.realpath, without it
\* canonicalPath calls back at once
unlock(p) ==
    /\ alive[p]
    /\ Len(unl[p]) < MaxUnlocks
    /\ \E resolve \in BOOLEAN :
          IF resolve
          THEN /\ unl' = [unl EXCEPT ![p] = Append(@, NewUnl)]
               /\ UNCHANGED <<locks, hnd, chain, alive>>
          ELSE unlock_resolved(p, Append(unl[p], NewUnl), Len(unl[p]) + 1)
    /\ UNCHANGED <<now, disk, call, faults>>

\* fs.realpath returns in unlock(file), lines 250-267: its error goes to the
\* caller and nothing is released
unlock_realpath(p) ==
    /\ alive[p]
    /\ \E i \in 1..Len(unl[p]) :
          /\ unl[p][i].pc = "realpath"
          /\ \E r \in Outcomes(fsRealpath(disk)) :
                /\ Fs(r)
                /\ IF r.err # None
                   THEN /\ unl' = [unl EXCEPT ![p][i].pc = "done", ![p][i].res = r.err]
                        /\ UNCHANGED <<locks, hnd, chain, alive>>
                   ELSE unlock_resolved(p, unl[p], i)
    /\ UNCHANGED <<now, call>>

\* removeLock of a call of unlock(file): fs.unlink returns, lines 89-95
unlock_unlink(p) ==
    /\ alive[p]
    /\ \E i \in 1..Len(unl[p]) :
          /\ unl[p][i].pc = "unlink"
          /\ \E r \in Outcomes(fsUnlink(disk, now)) :
                /\ Fs(r)
                /\ unl' = IF r.err \notin {None, "ENOENT"}
                          THEN [unl EXCEPT ![p][i].pc = "done", ![p][i].res = r.err]
                          ELSE [unl EXCEPT ![p][i].pc = "rmdir"]
    /\ UNCHANGED <<now, locks, call, hnd, chain, alive>>

\* removeLock of a call of unlock(file): fs.rmdir returns, lines 95-101
unlock_rmdir(p) ==
    /\ alive[p]
    /\ \E i \in 1..Len(unl[p]) :
          /\ unl[p][i].pc = "rmdir"
          /\ \E r \in Outcomes(fsRmdir(disk)) :
                /\ Fs(r)
                /\ unl' = [unl EXCEPT ![p][i].pc = "done",
                                      ![p][i].res = IF r.err \in {None, "ENOENT"}
                                                    THEN "ok" ELSE r.err]
    /\ UNCHANGED <<now, locks, call, hnd, chain, alive>>

\* ------------------------------------------------------------ renewal ticks
\* lock.lastUpdate <= Date.now() - options.stale, line 124
UpdateTimedOut(last, t, st) == last <= t - st

\* mutant: the token read is compared with itself
UidMismatch_never(v, L) == v # v

\* result.read.toString().trim() !== lock.uid, line 145; the token of the lock
\* object of call L is L
UidMismatch(v, L) == v # L

\* the callback of async.parallel in chain k, lines 117-156, with the error e
\* (None for none), the token v that was read, and the chains ch once the
\* filesystem call that triggers the callback is recorded
updateLock_callback(k, e, v, ch) ==
    LET p == ProcOf(k)
        L == ch[k].target
        off == [ch EXCEPT ![k].st = "off"]
        \* lock.compromised(err) in the turn of the callback
        tell(lk, hn, err) ==
            LET r == compromised(hn, L, err) IN Put(lk, r.hnd, off, r.crash, p)
        \* lines 125-127 and 134-136: unlock(file), then lock.compromised(err)
        giveUp(err) ==
            IF locks[p] = None
            THEN tell(locks, hnd, err)
            ELSE LET u == unlock_sync(p, locks, hnd, off) IN
                 Put(u.locks, u.hnd,
                     [u.chain EXCEPT ![k].rmpc = "unlink", ![k].rmFor = L,
                                     ![k].rmErr = err],
                     FALSE, p)
        again(hn) ==
            LET up == updateLock(k, p, locks, hn, ch) IN
            Put(locks, up.hnd, up.chain, up.crash, p)
    IN IF hnd[L].released
       THEN Put(locks, hnd, off, FALSE, p)
       ELSE IF UpdateTimedOut(hnd[L].lastUpdate, now, call[k].options.stale)
       THEN giveUp(IF hnd[L].updateError # None THEN hnd[L].updateError ELSE "EUPDATE")
       ELSE IF e = "ENOENT"
       THEN giveUp(e)
       ELSE IF e # None
       THEN again([hnd EXCEPT ![L].updateError = e, ![L].updateDelay = ErrorDelay])
       ELSE IF UidMismatch(v, L)
       THEN tell([locks EXCEPT ![p] = None], [hnd EXCEPT ![L].released = TRUE], "EMISMATCH")
       ELSE again([hnd EXCEPT ![L].lastUpdate = now, ![L].updateError = None,
                              ![L].updateDelay = 0])

\* the timer of chain k fires, lines 109-116: both filesystem calls start
updateLock_timer(k) ==
    /\ chain[k].st = "timer" /\ alive[ProcOf(k)]
    /\ now >= chain[k].due
    /\ chain' = [chain EXCEPT ![k].st = "io", ![k].mt = now, ![k].due = 0,
                              ![k].rd = "wait", ![k].ut = "wait", ![k].cb = FALSE]
    /\ hnd' = [hnd EXCEPT ![chain[k].target].updateTimeout = None]
    /\ UNCHANGED <<now, disk, locks, call, unl, alive, faults>>

\* fs.readFile returns, line 115; async.parallel calls back on the first
\* error, or when both calls are done; after an error the utimes call that is
\* still under way goes on as a stray one
updateLock_read(k) ==
    /\ chain[k].rd = "wait" /\ alive[ProcOf(k)]
    /\ \E r \in Outcomes(fsReadFile(disk)) :
          /\ Fs(r)
          /\ IF r.err # None
             THEN updateLock_callback(k, r.err, None,
                      [chain EXCEPT ![k].rd = "idle", ![k].cb = TRUE, ![k].rdval = None,
                                    ![k].ut = "idle", ![k].mt = 0,
                                    ![k].stray = IF chain[k].ut = "wait"
                                                 THEN @ \cup {chain[k].mt} ELSE @])
             ELSE IF chain[k].ut = "done"
             THEN updateLock_callback(k, None, r.val,
                      [chain EXCEPT ![k].rd = "idle", ![k].cb = TRUE, ![k].ut = "idle"])
             ELSE /\ chain' = [chain EXCEPT ![k].rd = "done", ![k].rdval = r.val]
                  /\ UNCHANGED <<locks, hnd, alive>>
    /\ UNCHANGED <<now, call, unl>>

\* fs.utimes of the tick in flight returns, line 116
updateLock_utimes(k) ==
    /\ chain[k].ut = "wait" /\ alive[ProcOf(k)]
    /\ \E r \in Outcomes(fsUtimes(disk, chain[k].mt)) :
          /\ Fs(r)
          /\ IF r.err # None
             THEN updateLock_callback(k, r.err, None,
                      [chain EXCEPT ![k].rd = "idle", ![k].cb = TRUE, ![k].rdval = None,
                                    ![k].ut = "idle", ![k].mt = 0])
             ELSE IF chain[k].rd = "done"
             THEN updateLock_callback(k, None, chain[k].rdval,
                      [chain EXCEPT ![k].rd = "idle", ![k].cb = TRUE, ![k].rdval = None,
                                    ![k].ut = "idle", ![k].mt = 0])
             ELSE /\ chain' = [chain EXCEPT ![k].ut = "done", ![k].mt = 0]
                  /\ UNCHANGED <<locks, hnd, alive>>
    /\ UNCHANGED <<now, call, unl>>

\* a stray fs.utimes call returns, line 116: it lands on whatever directory is
\* at the path, next to the calls of later ticks, and nothing looks at its
\* result
updateLock_stray(k) ==
    /\ alive[ProcOf(k)]
    /\ \E m \in chain[k].stray :
          /\ \E r \in Outcomes(fsUtimes(disk, m)) : Fs(r)
          /\ chain' = [chain EXCEPT ![k].stray = @ \ {m}]
    /\ UNCHANGED <<now, locks, call, hnd, unl, alive>>

\* the tick's unlock(file): removeLock's fs.unlink returns, lines 89-95
updateLock_unlink(k) ==
    /\ chain[k].rmpc = "unlink" /\ alive[ProcOf(k)]
    /\ \E r \in Outcomes(fsUnlink(disk, now)) :
          /\ Fs(r)
          /\ IF r.err \notin {None, "ENOENT"}
             THEN LET t == compromised(hnd, chain[k].rmFor, chain[k].rmErr) IN
                  Put(locks, t.hnd,
                      [chain EXCEPT ![k].rmpc = "off", ![k].rmFor = None,
                                    ![k].rmErr = None],
                      t.crash, ProcOf(k))
             ELSE /\ chain' = [chain EXCEPT ![k].rmpc = "rmdir"]
                  /\ UNCHANGED <<locks, hnd, alive>>
    /\ UNCHANGED <<now, call, unl>>

\* the tick's unlock(file): removeLock's fs.rmdir returns, lines 95-101; the
\* callback ignores the result and invokes lock.compromised
updateLock_rmdir(k) ==
    /\ chain[k].rmpc = "rmdir" /\ alive[ProcOf(k)]
    /\ \E r \in Outcomes(fsRmdir(disk)) :
          /\ Fs(r)
          /\ LET t == compromised(hnd, chain[k].rmFor, chain[k].rmErr) IN
             Put(locks, t.hnd,
                 [chain EXCEPT ![k].rmpc = "off", ![k].rmFor = None,
                               ![k].rmErr = None],
                 t.crash, ProcOf(k))
    /\ UNCHANGED <<now, call, unl>>

\* -------------------------------------------------------------------- clock
Advance ==
    /\ now < MaxTime
    /\ now' = now + TimeStep
    /\ UNCHANGED <<disk, locks, call, hnd, chain, unl, alive, faults>>

\* ------------------------------------------------------------ specification
\* the artifact a crashed holder left behind, created at time mt
Abandoned(mt) == [NoDisk EXCEPT !.dir = TRUE, !.mtime = mt, !.uid = Dead]
StaleDisk == Abandoned(0 - Stale - TimeStep)

\* d: the file and the artifact; f: the faults to inject; N: the retry counts
\* callers pass
InitWith(d, f, N) ==
    /\ now = 0
    /\ disk = d
    /\ locks = [p \in Procs |-> None]
    /\ call \in [Calls -> {[IdleCall EXCEPT !.arg.retries = n] : n \in N}]
    /\ hnd = [c \in Calls |-> NoHnd]
    /\ chain = [c \in Calls |-> NoChain]
    /\ unl = [p \in Procs |-> NoUnl]
    /\ alive = [p \in Procs |-> TRUE]
    /\ faults = f

Acquire(c) ==
    \/ lock(c)
    \/ lock_realpath(c)
    \/ acquireLock_mkdir(c)
    \/ acquireLock_write(c)
    \/ acquireLock_stat(c)
    \/ acquireLock_unlink(c)
    \/ acquireLock_rmdir(c)

Renew(k) ==
    \/ updateLock_timer(k)
    \/ updateLock_read(k)
    \/ updateLock_utimes(k)
    \/ updateLock_stray(k)
    \/ updateLock_unlink(k)
    \/ updateLock_rmdir(k)

Release(c) ==
    \/ release(c)
    \/ release_unlink(c)
    \/ release_rmdir(c)

Unlock(p) ==
    \/ unlock(p)
    \/ unlock_realpath(p)
    \/ unlock_unlink(p)
    \/ unlock_rmdir(p)

\* Spec: two lock() calls of one process, their renewal and release
\* functions, faults; the artifact is absent, fresh or stale at the start
Same == {"a1", "a2"}

Init == \E d \in {NoDisk, Abandoned(0), StaleDisk} : InitWith(d, MaxFaults, {0})

Next ==
    \/ Advance
    \/ \E c \in Same : Acquire(c) \/ Renew(c) \/ Release(c)

Spec == Init /\ [][Next]_vars

\* SpecUnlock: two lock() calls of one process, their renewal, and calls of
\* unlock(file) by the application; the artifact is absent or stale at the
\* start; no filesystem call fails
InitUnlock == \E d \in {NoDisk, StaleDisk} : InitWith(d, 0, {0})

NextUnlock ==
    \/ Advance
    \/ \E c \in Same : Acquire(c) \/ Renew(c)
    \/ Unlock("A")

SpecUnlock == InitUnlock /\ [][NextUnlock]_vars

\* SpecRenew: call a1 holds the lock it acquired at time 0 on no artifact;
\* its ticks fire when due and no filesystem call fails; a2 (same process)
\* and b1 (another process) try to acquire during the hold
Held(c) ==
    /\ now = 0
    /\ disk = [NoDisk EXCEPT !.dir = TRUE, !.uid = c]
    /\ locks = [p \in Procs |-> IF p = ProcOf(c) THEN c ELSE None]
    /\ call = [d \in Calls |-> IF d = c
                               THEN [IdleCall EXCEPT !.pc = "done", !.res = "ok",
                                                     !.options = lock_options(MinArg)]
                               ELSE IdleCall]
    /\ hnd = [d \in Calls |-> IF d = c
                              THEN [NewHnd(TRUE) EXCEPT !.updateDelay = Update,
                                                  !.updateTimeout = c]
                              ELSE NoHnd]
    /\ chain = [d \in Calls |-> IF d = c
                                THEN [NoChain EXCEPT !.st = "timer", !.target = c,
                                                     !.due = Update]
                                ELSE NoChain]
    /\ unl = [p \in Procs |-> NoUnl]
    /\ alive = [p \in Procs |-> TRUE]
    /\ faults = 0

\* the clock waits for every timer that is due and every tick in flight
AdvanceOnSchedule ==
    /\ \A k \in Calls : /\ chain[k].st # "io"
                        /\ chain[k].st = "timer" => now < chain[k].due
    /\ Advance

InitRenew == Held("a1")

NextRenew ==
    \/ AdvanceOnSchedule
    \/ lock("a2")
    \/ lock_realpath("a2")
    \/ lock("b1")
    \/ lock_realpath("b1")
    \/ acquireLock_mkdir("b1")
    \/ acquireLock_stat("b1")
    \/ updateLock_timer("a1")
    \/ updateLock_read("a1")
    \/ updateLock_utimes("a1")

SpecRenew == InitRenew /\ [][NextRenew]_vars

\* SpecSolo: one lock() call, with or without a compromised handler, on no
\* artifact or on an artifact a crashed holder left behind more than the
\* stale threshold ago; nothing else touches the artifact and no filesystem
\* call fails
InitSolo ==
    \E d \in {NoDisk, StaleDisk}, h \in BOOLEAN :
        /\ now = 0
        /\ disk = d
        /\ locks = [p \in Procs |-> None]
        /\ call = [c \in Calls |-> IF c = "b1"
                                    THEN [IdleCall EXCEPT !.arg.compromised = h]
                                    ELSE IdleCall]
        /\ hnd = [c \in Calls |-> NoHnd]
        /\ chain = [c \in Calls |-> NoChain]
        /\ unl = [p \in Procs |-> NoUnl]
        /\ alive = [p \in Procs |-> TRUE]
        /\ faults = 0

NextSolo ==
    \/ Advance
    \/ Acquire("b1")
    \/ Renew("b1")
    \/ Release("b1")

SpecSolo == InitSolo /\ [][NextSolo]_vars

\* SpecRetry: two lock() calls of one process with a retry policy, on no
\* artifact, with renewal; the release function of a1 is called, that of a2
\* is not; no filesystem call fails; b1 makes no call
InitRetry == InitWith(NoDisk, 0, 0..MaxRetries) /\ call["b1"] = IdleCall

NextRetry ==
    \/ Advance
    \/ \E c \in Same : Acquire(c) \/ lock_retry(c) \/ Renew(c)
    \/ Release("a1")

SpecRetry == InitRetry /\ [][NextRetry]_vars

\* SpecCross: two lock() calls of different processes, on no artifact or on a
\* stale one, with renewal and release; no filesystem call fails
Cross == {"a1", "b1"}

InitCross == \E d \in {NoDisk, StaleDisk} : InitWith(d, 0, {0})

NextCross ==
    \/ Advance
    \/ \E c \in Cross : Acquire(c) \/ Renew(c) \/ Release(c)

SpecCross == InitCross /\ [][NextCross]_vars

\* SpecOptions: one lock() call on no artifact whose caller gives, or leaves
\* out, the stale, update and resolve options: values below, at and above the
\* minimum, even and odd; its ticks fire when due and no filesystem call fails
StaleGiven == {<<>>, <<0>>, <<0 - 1>>, <<1999>>, <<2000>>, <<2001>>, <<2002>>,
               <<3000>>, <<3001>>, <<10001>>}
UpdateGiven == {<<>>, <<0>>, <<0 - 1>>, <<999>>, <<1000>>, <<1001>>, <<1500>>,
                <<1501>>, <<5000>>, <<6000>>}
ResolveGiven == {<<>>, <<TRUE>>, <<FALSE>>}

InitOptions ==
    /\ now = 0
    /\ disk = NoDisk
    /\ locks = [p \in Procs |-> None]
    /\ \E s \in StaleGiven, u \in UpdateGiven, r \in ResolveGiven :
          call = [c \in Calls |-> IF c = "b1"
                                  THEN [IdleCall EXCEPT !.arg.stale = s, !.arg.update = u,
                                                        !.arg.resolve = r]
                                  ELSE IdleCall]
    /\ hnd = [c \in Calls |-> NoHnd]
    /\ chain = [c \in Calls |-> NoChain]
    /\ unl = [p \in Procs |-> NoUnl]
    /\ alive = [p \in Procs |-> TRUE]
    /\ faults = 0

NextOptions ==
    \/ AdvanceOnSchedule
    \/ lock("b1")
    \/ lock_realpath("b1")
    \/ acquireLock_mkdir("b1")
    \/ acquireLock_write("b1")
    \/ updateLock_timer("b1")
    \/ updateLock_read("b1")
    \/ updateLock_utimes("b1")

SpecOptions == InitOptions /\ [][NextOptions]_vars

\* SpecExhaust: one lock() call with a retry policy, on a file that does not
\* exist, on no artifact or on one a crashed holder left behind at time 0
\* (fresh at first, stale later); one filesystem call may fail for an outside
\* reason
InitExhaust ==
    /\ \E d \in {NoFile, NoDisk, Abandoned(0)} : InitWith(d, MaxFaults, 0..MaxRetries)
    /\ call["a1"] = IdleCall /\ call["a2"] = IdleCall

NextExhaust ==
    \/ Advance
    \/ Acquire("b1")
    \/ lock_retry("b1")

SpecExhaust == InitExhaust /\ [][NextExhaust]_vars

\* SpecOrphan: one lock() call, on no artifact or on a stale one, with
\* renewal; the write of the token may fail for an outside reason, and so may
\* MaxFaults further filesystem calls
InitOrphan == \E d \in {NoDisk, StaleDisk} : InitWith(d, 1 + MaxFaults, {0})

NextOrphan ==
    \/ Advance
    \/ Acquire("b1")
    \/ Renew("b1")

SpecOrphan == InitOrphan /\ [][NextOrphan]_vars

\* ------------------------------------------------------------------ claims
Holds(c) == call[c].res = "ok" /\ hnd[c].live /\ ~hnd[c].released /\ alive[ProcOf(c)]

BothHold == \E c, d \in Calls : c # d /\ Holds(c) /\ Holds(d)

\* C1: no state is reachable in which two acquire calls on the same identity
\* have both returned a release function and both handles are unreleased.
C1_AtMostOneHolder == ~BothHold

\* both calls acquired in the same instant, with no filesystem failure
C1_Witness == BothHold /\ now = 0 /\ faults = MaxFaults

\* the step in which call c, reclaiming a lock it found stale, removes the
\* uid file of the artifact
ReclaimUnlink(c) ==
    /\ call[c].pc = "unlink" /\ call[c].why = "stale"
    /\ call'[c].pc = "rmdir"
    /\ disk.uid # None /\ disk'.uid = None

\* C2: the stale-reclaim removal is never applied to an artifact whose mtime
\* is within the stale threshold at the moment of the removal.
C2_FreshNeverReclaimed ==
    [][\A c \in Calls : ReclaimUnlink(c) => ~NotStale(disk.mtime, now, Stale)]_vars

\* C3: while the holder's ticks fire on schedule and succeed, the artifact is
\* never as old as the stale threshold, it keeps the holder's token, and every
\* acquire attempt of another party made during the hold ends with ELOCKED
\* without reaching a write or a removal.
C3_RenewedLockIsHeld ==
    /\ Holds("a1")
    /\ disk.dir /\ disk.uid = "a1"
    /\ now - disk.mtime < Stale
    /\ \A c \in Calls \ {"a1"} :
          /\ call[c].pc \notin {"write", "unlink", "rmdir"}
          /\ call[c].pc = "done" => call[c].res = "ELOCKED"

C3_Witness ==
    /\ call["a2"].res = "ELOCKED" /\ call["b1"].res = "ELOCKED"
    /\ hnd["a1"].lastUpdate >= Stale
    /\ disk.mtime >= Stale

\* C4: an acquire attempt on an artifact that was abandoned more than the
\* stale threshold ago, with no other party touching it, succeeds: the dead
\* holder's token is gone, the directory holds the acquirer's token and the
\* acquirer's handle is registered.
C4_AbandonedIsReclaimed ==
    [][\A c \in Calls :
          (call[c].pc # "done" /\ call'[c].pc = "done") =>
              /\ call'[c].res = "ok"
              /\ disk'.dir /\ disk'.uid = c
              /\ locks'[ProcOf(c)] = c
              /\ hnd'[c].live /\ ~hnd'[c].released]_vars

\* the acquirer has removed the stale artifact and re-created the directory
C4_Witness ==
    /\ call["b1"].pc = "write" /\ call["b1"].stale = 0
    /\ disk.dir /\ disk.uid = None

\* a renewal activity that can still release lock object c or report its loss
Renewing(c) ==
    \E k \in Calls :
        \/ chain[k].target = c /\ chain[k].st \in {"timer", "io"}
        \/ chain[k].rmFor = c /\ chain[k].rmpc # "off"

\* C5: a handle that lost its artifact and is still unreleased is released and
\* reported compromised by its renewal ticks; so at any time such a handle has
\* a tick pending or in flight, or a compromise report on its way.
C5_DispossessedIsRenewing ==
    \A c \in Calls :
        (Holds(c) /\ disk.uid # c) => Renewing(c)

\* a release call that went on to unlock(file)
Voluntary(r) == r # "ERELEASED"

\* C6: the compromise handler of a handle is invoked at most once, and never
\* after the handle's release function was called voluntarily.
C6_CompromisedOnce ==
    [][\A c \in Calls :
          hnd'[c].comp > hnd[c].comp =>
              /\ hnd[c].comp = 0
              /\ \A i \in 1..Len(hnd[c].rels) : ~Voluntary(hnd[c].rels[i])]_vars

\* C7: every call of a handle's release function after the first one fails
\* with ERELEASED.
C7_ReleaseIdempotent ==
    \A c \in Calls :
        \A i \in 2..Len(hnd[c].rels) : hnd[c].rels[i] = "ERELEASED"

\* C8: after acquire and a successful release, with any number of ticks in
\* between, nothing is left: no directory, no uid file, no pending timer, no
\* registry entry.
C8_RoundTrip ==
    \A c \in Calls :
        (hnd[c].rels # <<>> /\ hnd[c].rels[1] = "ok") =>
            /\ disk = NoDisk
            /\ locks[ProcOf(c)] = None
            /\ \A k \in Calls : chain[k].st # "timer"

C8_Witness ==
    /\ hnd["b1"].rels # <<>> /\ hnd["b1"].rels[1] = "ok"
    /\ hnd["b1"].lastUpdate > 0

\* the step in which the callback of chain k's tick runs after fs.readFile and
\* fs.utimes have both succeeded
TickBothOk(k) ==
    /\ ~chain[k].cb /\ chain'[k].cb
    /\ faults' = faults
    /\ \/ chain[k].rd = "wait" /\ chain[k].ut = "done" /\ disk.uid # None
       \/ chain[k].rd = "done" /\ chain[k].ut = "wait" /\ disk.dir

\* the token that tick has read
TickRead(k) == IF chain[k].rd = "wait" THEN disk.uid ELSE chain[k].rdval

\* such a tick of an unreleased handle that read another token than its own
MismatchTick(k) ==
    /\ TickBothOk(k)
    /\ ~hnd[chain[k].target].released
    /\ TickRead(k) # chain[k].target

\* the handle of chain k is released, unregistered and told EMISMATCH, and the
\* chain has no further tick
MismatchReported(k) ==
    LET L == chain[k].target IN
    /\ hnd'[L].released
    /\ hnd'[L].comp = hnd[L].comp + 1 /\ hnd'[L].compErr = "EMISMATCH"
    /\ locks'[ProcOf(k)] # L
    /\ chain'[k].st = "off"

\* the tick gave the lock up through unlock(file): the registry entry is gone,
\* the chain has no further tick, and the handler is told, now or once the
\* teardown returns, EUPDATE or the remembered update error
TimeoutReported(k) ==
    LET L == chain[k].target
        e == IF hnd[L].updateError # None THEN hnd[L].updateError ELSE "EUPDATE"
    IN /\ locks'[ProcOf(k)] = None
       /\ chain'[k].st = "off"
       /\ \/ hnd'[L].comp = hnd[L].comp + 1 /\ hnd'[L].compErr = e
          \/ chain'[k].rmpc = "unlink" /\ chain'[k].rmFor = L /\ chain'[k].rmErr = e

\* C9 as claimed: the next tick of a held handle whose read and utimes both
\* succeed and that reads a token other than the handle's own reports
\* EMISMATCH, marks the handle released, unregisters it and schedules no
\* further tick.
C9_MismatchAlwaysReported ==
    [][\A k \in Calls : MismatchTick(k) => MismatchReported(k)]_vars

\* C9 as amended: it does so when the callback runs less than the stale
\* threshold after the handle's lastUpdate; otherwise the tick gives the lock
\* up through unlock(file) and reports EUPDATE or the remembered update error.
C9_MismatchReportedInTime ==
    [][\A k \in Calls :
          MismatchTick(k) =>
              IF UpdateTimedOut(hnd[chain[k].target].lastUpdate, now, Stale)
              THEN TimeoutReported(k)
              ELSE MismatchReported(k)]_vars

C9_Witness ==
    \E c \in Calls :
        hnd[c].released /\ hnd[c].comp = 1 /\ hnd[c].compErr = "EMISMATCH"

\* the step in which an acquisition attempt of call c starts (acquireLock is
\* entered): it fails at once or issues the mkdir
AttemptStart(c) ==
    /\ call[c].pc \in {"idle", "realpath", "wait"}
    /\ call'[c].errs # call[c].errs \/ call'[c].pc = "mkdir"

\* C10: an acquisition attempt, first or retried, made while the registry of
\* the process holds a handle ends at once with ELOCKED and changes neither
\* the artifact, nor the registry, nor any handle or renewal.
C10_FastFail ==
    [][\A c \in Calls :
          (AttemptStart(c) /\ locks[ProcOf(c)] # None) =>
              /\ call'[c].pc \in {"wait", "done"}
              /\ call'[c].errs = Append(call[c].errs, ELOCKED)
              /\ UNCHANGED <<disk, locks, hnd, chain>>]_vars

\* a2's first attempt and its retry both met a1's registered handle
C10_Witness ==
    /\ locks["A"] = "a1" /\ Holds("a1")
    /\ call["a2"].pc = "done" /\ call["a2"].errs = <<ELOCKED, ELOCKED>>

\* C11: whatever stale and update values the caller gives or leaves out, the
\* options a lock() call works with have stale >= 2000 and
\* 1000 <= update with 2 * update <= stale.
C11_EffectiveOptions ==
    \A c \in Calls :
        call[c].pc # "idle" =>
            /\ call[c].options.stale >= 2000
            /\ call[c].options.update >= 1000
            /\ 2 * call[c].options.update <= call[c].options.stale

\* the step in which the callback of chain k's tick runs (async.parallel calls
\* back on the first error or when both calls are done)
TickCompletes(k) == ~chain[k].cb /\ chain'[k].cb

\* such a step on an unreleased handle that takes the branch of line 124:
\* the last successful renewal is the stale threshold or more ago
LateTick(k) ==
    LET L == chain[k].target IN
    /\ TickCompletes(k)
    /\ ~hnd[L].released
    /\ UpdateTimedOut(hnd[L].lastUpdate, now, call[k].options.stale)

\* the compromise handler of chain k's handle is invoked with e, in this step
\* or once the teardown the step started returns
ReportsWith(k, e) ==
    LET L == chain[k].target IN
    \/ hnd'[L].comp = hnd[L].comp + 1 /\ hnd'[L].compErr = e
    \/ chain'[k].rmpc = "unlink" /\ chain'[k].rmFor = L /\ chain'[k].rmErr = e

\* C12: when a tick completes on an unreleased handle more than the stale
\* threshold after its last successful renewal, the handle is released and
\* its compromise handler is invoked with EUPDATE, whatever this tick's
\* filesystem calls returned and whatever earlier ticks did.
C12_LateTickReportsEUPDATE ==
    [][\A k \in Calls :
          (LateTick(k) /\ now - hnd[chain[k].target].lastUpdate > call[k].options.stale) =>
              /\ hnd'[chain[k].target].released
              /\ ReportsWith(k, "EUPDATE")]_vars

\* the acquisition attempts call c has made
Attempts(c) ==
    Len(call[c].errs) +
        (IF call[c].pc \in {"mkdir", "write", "stat", "unlink", "rmdir"}
            \/ call[c].res = "ok" THEN 1 ELSE 0)

\* the step in which an attempt of call c reports an error
AttemptFails(c) == call'[c].errs # call[c].errs

\* the step in which call c, its last attempt failing, reports failure to its
\* caller
Exhausted(c) ==
    /\ call[c].pc # "done" /\ call'[c].pc = "done" /\ call'[c].res # "ok"
    /\ call'[c].errs # call[c].errs

\* the step in which the caller's callback is invoked
CalledBack(c) == call[c].res = None /\ call'[c].res # None

\* at most retries + 1 attempts; a failed attempt, whatever its error, is
\* followed by another while fewer than retries + 1 were made, and by the
\* caller's callback otherwise; the callback is invoked when the call is done
\* and after it the call does nothing more
RetryDiscipline(c) ==
    /\ Attempts(c)' <= call'[c].options.retries + 1
    /\ AttemptFails(c) =>
          /\ Len(call'[c].errs) = Len(call[c].errs) + 1
          /\ IF Len(call[c].errs) < call'[c].options.retries
             THEN call'[c].pc = "wait" /\ call'[c].res = None
             ELSE Exhausted(c)
    /\ CalledBack(c) <=> (call[c].pc # "done" /\ call'[c].pc = "done")
    /\ call[c].pc = "done" => call'[c] = call[c]

\* e is an error of es whose message occurs most often in es, the one that
\* occurred last among those whose messages occur equally often
MostFrequentLatest(es, e) ==
    LET At(x) == {i \in 1..Len(es) : es[i] = x}
        Last(x) == CHOOSE i \in At(x) : \A j \in At(x) : j <= i
    IN /\ At(e) # {}
       /\ \A i \in 1..Len(es) :
             \/ es[i] = e
             \/ Cardinality(At(es[i])) < Cardinality(At(e))
             \/ Cardinality(At(es[i])) = Cardinality(At(e)) /\ Last(es[i]) < Last(e)

\* C13 as claimed: with n retries lock() makes at most n + 1 attempts, retries
\* after ELOCKED and after filesystem errors alike, calls back once, and when
\* every attempt failed reports the error of the last attempt.
C13_LastErrorReported ==
    [][\A c \in Calls :
          /\ RetryDiscipline(c)
          /\ Exhausted(c) =>
                call'[c].res = call'[c].errs[Len(call'[c].errs)].code]_vars

\* C13 as amended: when every attempt failed it reports the error whose
\* message occurred most often among the attempts, the later one on a tie.
C13_MainErrorReported ==
    [][\A c \in Calls :
          /\ RetryDiscipline(c)
          /\ Exhausted(c) =>
                \E i \in 1..Len(call'[c].errs) :
                    /\ MostFrequentLatest(call'[c].errs, call'[c].errs[i])
                    /\ call'[c].res = call'[c].errs[i].code]_vars

\* three failed attempts, the last with another error than the first two
C13_Witness ==
    /\ call["b1"].pc = "done"
    /\ call["b1"].errs = <<ELOCKED, ELOCKED, Err("EIO", "stat")>>
    /\ call["b1"].res = "ELOCKED"

\* the step in which an attempt of call c whose token write failed reports,
\* once removeLock has called back
WriteFailReport(c) ==
    /\ call[c].why = "write" /\ call[c].pc \in {"unlink", "rmdir"}
    /\ call'[c].pc \in {"wait", "done"}

\* that attempt reports the write error, registers no handle and starts no
\* renewal timer
WriteFailReported(c) ==
    /\ call'[c].errs = Append(call[c].errs, call[c].perr)
    /\ locks'[ProcOf(c)] # c
    /\ ~hnd'[c].live
    /\ chain'[c].st = "off"

\* the filesystem call of this step did not fail, or failed with ENOENT
TeardownCallClean(c) ==
    /\ faults' = faults
    /\ call[c].pc = "unlink" => fsUnlink(disk, now).err \in {None, "ENOENT"}
    /\ call[c].pc = "rmdir" => fsRmdir(disk).err \in {None, "ENOENT"}

\* C14 as claimed: an attempt that created the directory and whose token write
\* failed reports the write error, registers no handle, starts no timer and
\* leaves no lock directory behind, whatever its teardown's unlink and rmdir
\* calls return.
C14_NoOrphanEver ==
    [][\A c \in Calls :
          WriteFailReport(c) => WriteFailReported(c) /\ ~disk'.dir]_vars

\* C14 as amended: it leaves no lock directory behind when the teardown's
\* unlink and rmdir calls succeed or report ENOENT; when one of them fails
\* otherwise, the write error is still reported, no handle is registered and
\* no timer started, but the directory stays.
C14_NoOrphanAfterCleanTeardown ==
    [][\A c \in Calls :
          WriteFailReport(c) =>
              /\ WriteFailReported(c)
              /\ IF TeardownCallClean(c) THEN ~disk'.dir ELSE disk' = disk]_vars

\* the write failed, the teardown did not, and the attempt has reported
C14_Witness ==
    /\ call["b1"].pc = "done" /\ call["b1"].errs = <<Err("EIO", "open")>>
    /\ disk = NoDisk /\ faults = MaxFaults
    /\ locks["B"] = None /\ ~hnd["b1"].live /\ chain["b1"].st = "off"

\* the step in which fs.stat of call c's attempt returns the directory's mtime
StatReturns(c) ==
    /\ call[c].pc = "stat" /\ call'[c] # call[c]
    /\ disk.dir /\ faults' = faults

\* the attempt fails with ELOCKED and modifies nothing
DecidesHeld(c) ==
    /\ call'[c].errs = Append(call[c].errs, ELOCKED)
    /\ call'[c].pc \in {"wait", "done"}
    /\ UNCHANGED <<disk, locks, hnd, chain>>

\* the attempt goes on to remove the artifact
DecidesStale(c) ==
    /\ call'[c].pc = "unlink" /\ call'[c].why = "stale"
    /\ call'[c].errs = call[c].errs

\* the removal of an artifact found stale, when its calls do not fail: the
\* uid file goes, then the directory, then acquireLock runs once more with
\* the stale check off (the create, after the look at the registry)
ReclaimProceeds(c) ==
    (call[c].why = "stale" /\ call'[c] # call[c] /\ faults' = faults) =>
        /\ call[c].pc = "unlink" => disk'.uid = None /\ call'[c].pc = "rmdir"
        /\ (call[c].pc = "rmdir" /\ disk.uid = None) =>
              /\ ~disk'.dir
              /\ IF locks[ProcOf(c)] = None
                 THEN call'[c].pc = "mkdir" /\ call'[c].stale = 0
                 ELSE call'[c].errs = Append(call[c].errs, ELOCKED)

\* C15 as claimed: on contention with the stale check on, the attempt fails
\* with ELOCKED and modifies nothing if now - mtime < stale; otherwise, also
\* when now - mtime = stale, it removes the uid file and the directory and
\* tries the create once more.
C15_StaleAtThreshold ==
    [][\A c \in Calls :
          /\ StatReturns(c) =>
                IF now - disk.mtime < call[c].stale
                THEN DecidesHeld(c) ELSE DecidesStale(c)
          /\ ReclaimProceeds(c)]_vars

\* C15 as amended: it fails with ELOCKED if now - mtime <= stale, and treats
\* the artifact as stale only if now - mtime > stale.
C15_StaleBeyondThreshold ==
    [][\A c \in Calls :
          /\ StatReturns(c) =>
                IF now - disk.mtime <= call[c].stale
                THEN DecidesHeld(c) ELSE DecidesStale(c)
          /\ ReclaimProceeds(c)]_vars

\* an attempt that found the artifact exactly as old as the threshold has
\* failed with ELOCKED
C15_Witness ==
    \E c \in Calls :
        /\ call[c].pc = "done" /\ call[c].errs = <<ELOCKED>>
        /\ disk.dir /\ now - disk.mtime = call[c].options.stale
        /\ locks[ProcOf(c)] = None

\* where an acquisition attempt stands: the create with the stale check on
\* (1), the stat (2), the removal of a stale artifact (3, 4), the create with
\* the stale check off (5), the token write (6), the teardown after a failed
\* write (7, 8); 9 when no attempt is under way
Stage(rec) ==
    CASE rec.pc = "mkdir" /\ rec.stale > 0 -> 1
      [] rec.pc = "stat" -> 2
      [] rec.pc = "unlink" /\ rec.why = "stale" -> 3
      [] rec.pc = "rmdir" /\ rec.why = "stale" -> 4
      [] rec.pc = "mkdir" /\ rec.stale <= 0 -> 5
      [] rec.pc = "write" -> 6
      [] rec.pc = "unlink" /\ rec.why = "write" -> 7
      [] rec.pc = "rmdir" /\ rec.why = "write" -> 8
      [] OTHER -> 9

\* C16: an acquisition attempt only moves forward through its stages, whatever
\* other parties do to the artifact: every step of it leads to a later stage,
\* a new attempt starts at the first create or fails at once, the stat runs
\* with the stale check on and the second create with it off; so an attempt
\* makes at most two mkdir calls, one stat and one removal of a stale
\* artifact, and ends.
C16_AttemptMovesForward ==
    [][\A c \in Calls :
          call'[c] # call[c] =>
              /\ IF call[c].pc \in {"idle", "realpath", "wait"}
                 THEN Stage(call'[c]) \in {1, 9}
                 ELSE Stage(call'[c]) > Stage(call[c])
              /\ Stage(call'[c]) \in 2..4 => call'[c].stale > 0]_vars

\* the stale artifact was removed and another party has created its own
\* before this attempt's second create
C16_Witness ==
    /\ call["b1"].pc = "mkdir" /\ call["b1"].stale = 0
    /\ disk.dir /\ disk.uid = "a1" /\ Holds("a1")

\* the renewal activities of lock object L: the chains with a timer pending
\* for it or a tick of it in flight
Activities(L) ==
    {k \in Calls : chain[k].target = L /\ chain[k].st \in {"timer", "io"}}

\* the step in which chain k gets a timer
Scheduled(k) == chain[k].st # "timer" /\ chain'[k].st = "timer"

\* C17: a handle never has more than one renewal activity (one pending timer
\* or one tick in flight), and a timer is set only when the handle is created
\* or when the callback of the chain's previous tick runs.
C17_TicksSequential ==
    [][/\ \A L \in Calls : Cardinality(Activities(L))' <= 1
       /\ \A k \in Calls :
             Scheduled(k) =>
                 \/ chain[k].st = "off" /\ call[k].pc = "write" /\ call'[k].res = "ok"
                 \/ chain[k].st = "io" /\ TickCompletes(k)]_vars

\* the step in which the timer of chain k fires
TimerFires(k) == chain[k].st = "timer" /\ chain'[k].st = "io"

\* the callback of chain k's tick does nothing: no new timer, no teardown, no
\* change to any lock object or to the registry, nothing removed from disk
TickIsNoOp(k) ==
    /\ chain'[k].st = "off" /\ chain'[k].rmpc = chain[k].rmpc
    /\ hnd' = hnd /\ locks' = locks
    /\ disk'.dir = disk.dir /\ disk'.uid = disk.uid

\* C18: once a handle is marked released, no timer pending for it fires, and
\* the callback of a tick of it that was in flight does nothing, whatever its
\* read and utimes calls returned.
C18_ReleaseCancelsRenewal ==
    [][\A k \in Calls :
          /\ TimerFires(k) => ~hnd[chain[k].target].released
          /\ (TickCompletes(k) /\ hnd[chain[k].target].released) => TickIsNoOp(k)]_vars

\* the step in which a removeLock that runs for lock object L (started by a
\* call of its release function, by unlock(file) in a tick of it, or by a
\* call of unlock(file) that released it) gets the result of the call named
\* at: "unlink" or "rmdir"
TeardownReturns(L, at) ==
    \/ \E i \in 1..Len(hnd[L].rels) : hnd[L].rels[i] = at /\ hnd'[L].rels[i] # at
    \/ \E k \in Calls : /\ chain[k].rmFor = L
                         /\ chain[k].rmpc = at /\ chain'[k].rmpc # at
    \/ \E i \in 1..Len(unl[ProcOf(L)]) :
          /\ unl[ProcOf(L)][i].rel = L
          /\ unl[ProcOf(L)][i].pc = at /\ unl'[ProcOf(L)][i].pc # at

TeardownUnlink(L) == TeardownReturns(L, "unlink")

TeardownRmdir(L) == TeardownReturns(L, "rmdir")

\* another call has created the directory and is about to write its token
CreatedByOther(L) == \E d \in Calls \ {L} : call[d].pc = "write"

\* C19: the teardown that runs for a handle removes a uid file only if it
\* holds the handle's own token, and never removes the directory another
\* party has created.
C19_TeardownOnlyOwn ==
    [][\A L \in Calls :
          /\ (TeardownUnlink(L) /\ disk.uid # None /\ disk'.uid = None) => disk.uid = L
          /\ (TeardownRmdir(L) /\ disk.dir /\ ~disk'.dir) => ~CreatedByOther(L)]_vars

\* the step in which call c's lock() succeeds and registers its lock object
Registers(c) == call[c].res # "ok" /\ call'[c].res = "ok"

\* lock object M is marked released or leaves the registry in this step
Dropped(M) ==
    \/ ~hnd[M].released /\ hnd'[M].released
    \/ locks[ProcOf(M)] = M /\ locks'[ProcOf(M)] # M

\* the step belongs to lock object L: its release function is called, or the
\* callback of a tick of it runs
ActsFor(L) ==
    \/ Len(hnd'[L].rels) > Len(hnd[L].rels)
    \/ \E k \in Calls : chain[k].target = L /\ TickCompletes(k)

\* C20: in one process, an unreleased handle with a timer pending or a tick in
\* flight is the one the registry holds; no successful lock() overwrites a
\* registered unreleased handle; a handle's release function and ticks never
\* mark released or deregister another handle; and a tick that reschedules
\* finds a handle in the registry (updateLock does not throw).
C20_RegistryHoldsRenewing ==
    [][/\ \A L \in Calls :
             (hnd'[L].live /\ ~hnd'[L].released /\ Activities(L)' # {}) =>
                 locks'[ProcOf(L)] = L
       /\ \A c \in Calls :
             Registers(c) =>
                 \/ locks[ProcOf(c)] = None
                 \/ hnd[locks[ProcOf(c)]].released
       /\ \A L \in Calls : ActsFor(L) => \A M \in Calls \ {L} : ~Dropped(M)
       /\ alive' = alive]_vars

====
